---- MODULE Spec2Model ----
(***************************************************************************)
(* AtomicSDCA (lib/cpp/solver/asdca.cpp): asynchronous stochastic dual     *)
(* coordinate ascent.  n_threads workers update the shared dual vector,    *)
(* the shared primal iterate and the last-increment cache; the atomics are *)
(* updated by compare_exchange_weak retry loops, delta by plain stores.    *)
(*                                                                         *)
(* Numbers: the floating point type T is modelled by the integers, so an   *)
(* addition is exact.  Arrays are functions over 0..size-1, as in the      *)
(* code.  An atomic load, an atomic compare-exchange and a plain store are *)
(* one step each; the code between two of them touches only locals of the  *)
(* worker and is part of the step that follows or precedes it.             *)
(***************************************************************************)
EXTENDS Integers, Sequences, FiniteSets, TLC

\* ------------------------------------------------------------------ bounds
MaxThreads == 2
MaxEpochSize == 2
MaxEpochs == 2
MaxClock == 1
MaxWork == 3
MaxRecordEvery == 2
MaxShareThreads == 4
MaxShareEpochSize == 8

\* ------------------------------------------------------- arrays and values
Arr(n, v) == [x \in 0..(n - 1) |-> v]

Size(a) == Cardinality(DOMAIN a)

\* Array<T>(n) allocates without initialising: the entries are whatever the
\* allocator hands out, here all zero or all Garbage.
Garbage == 7

Uninit(n) == {Arr(n, 0), Arr(n, Garbage)}

\* _1_over_lbda_n = 1 / (scaled_l_l2sq * rand_max); the regularisation is
\* taken such that it is this integer.
_1_over_lbda_n == 2

\* ------------------------------------------------------------------ models
\* A model: kind (ModelPoisReg with identity link or anything else), the
\* solver's index range rand_max, get_n_features(), use_intercept(),
\* get_sdca_index_map() (<<>> is nullptr), get_features(feature_index) as
\* the sparse row: a sequence of <<indices()[k], data()[k]>>, the values
\* sdca_dual_min_i may return (the solver takes whatever comes back), and
\* the primal the model's primal/dual relation gives at a zero dual vector.
ModelLin ==
  [kind |-> "other", rand_max |-> 2, n_features |-> 2, use_intercept |-> FALSE,
   index_map |-> <<>>,
   features |-> (0 :> << <<0, 1>> >>) @@ (1 :> << <<0, 2>>, <<1, 1>> >>),
   increments |-> {1}, primal0 |-> Arr(2, 0)]

ModelPois ==
  [kind |-> "poisreg_identity", rand_max |-> 1, n_features |-> 1,
   use_intercept |-> TRUE,
   index_map |-> (0 :> 1),
   features |-> (0 :> << >>) @@ (1 :> << <<0, 1>> >>),
   increments |-> {1, 2}, primal0 |-> (0 :> 1) @@ (1 :> 0)]

ModelOne ==
  [kind |-> "other", rand_max |-> 1, n_features |-> 1, use_intercept |-> FALSE,
   index_map |-> <<>>, features |-> (0 :> << <<0, 1>> >>),
   increments |-> {1}, primal0 |-> Arr(1, 0)]

\* A model whose sdca_dual_min_i is a function of what it is given (see
\* StepFn): two samples on one feature, with an intercept.
ModelStep ==
  [kind |-> "other", rand_max |-> 2, n_features |-> 1, use_intercept |-> TRUE,
   index_map |-> <<>>,
   features |-> (0 :> << <<0, 1>> >>) @@ (1 :> << <<0, 2>> >>),
   increments |-> {1, 2}, primal0 |-> Arr(2, 0)]

NoModel ==
  [kind |-> "none", rand_max |-> 0, n_features |-> 0, use_intercept |-> FALSE,
   index_map |-> <<>>, features |-> <<>>, increments |-> {}, primal0 |-> <<>>]

Models == {ModelLin, ModelPois}

get_n_coeffs(m) == m.n_features + (IF m.use_intercept THEN 1 ELSE 0)

ProxKinds == {"zero", "other"}

VARIABLES
  n_threads, epoch_size, record_every,   \* constructor arguments
  model, prox,                           \* attached model and prox
  rand_max, n_coeffs,
  stored_variables_ready,
  dual_vector, iterate, delta,           \* the shared state
  t, history, last_record_time, last_record_epoch,
  now,                                   \* std::chrono::steady_clock
  pc, n_epochs,                          \* the caller: "idle" or in solve
  w,                                     \* the workers of the running solve
  ret,                                   \* outcome of the last call
  obs                                    \* observations of the running call

vars == <<n_threads, epoch_size, record_every, model, prox, rand_max, n_coeffs,
          stored_variables_ready, dual_vector, iterate, delta, t, history,
          last_record_time, last_record_epoch, now, pc, n_epochs, w, ret, obs>>

conf == <<n_threads, epoch_size, record_every>>

shared == <<dual_vector, iterate, delta>>

book == <<t, history, last_record_time, last_record_epoch>>

Threads == 0..(n_threads - 1)

\* Observations of the running (or last) solve call: values at its start and
\* what its workers issued.  Nothing in the solver reads them.
NoObs ==
  [solves |-> 0, work |-> 0, epochs |-> 0, shares |-> <<>>, n |-> 0,
   dual0 |-> <<>>, iter0 |-> <<>>, delta0 |-> <<>>, t0 |-> 0, ready0 |-> FALSE,
   issued |-> <<>>, steps |-> <<>>, failed |-> {}, arg |-> <<>>,
   book0 |-> <<>>, last |-> <<>>, accepted |-> <<>>, draws |-> <<>>]

Ret(op, err) == [op |-> op, err |-> err]

\* The observations of a call are kept until the next call of any operation.
Forgotten ==
  [NoObs EXCEPT !.solves = obs.solves, !.work = obs.work,
                !.epochs = obs.epochs, !.shares = obs.shares]

\* ------------------------------------------------------------ construction
\* AtomicSDCA(l_l2sq, epoch_size, tol, rand_type, record_every, seed,
\* n_threads): no model, no prox, nothing allocated, flag cleared.
InitWith(C) ==
  /\ \E c \in C :
       /\ n_threads = c[1]
       /\ epoch_size = c[2]
       /\ record_every = c[3]
  /\ model = NoModel
  /\ prox = "none"
  /\ rand_max = 0
  /\ n_coeffs = 0
  /\ stored_variables_ready = FALSE
  /\ dual_vector = <<>>
  /\ iterate = <<>>
  /\ delta = <<>>
  /\ t = 0
  /\ history = <<>>
  /\ last_record_time = 0
  /\ last_record_epoch = 0
  /\ now = 0
  /\ pc = "idle"
  /\ n_epochs = 0
  /\ w = <<>>
  /\ ret = Ret("new", "none")
  /\ obs = NoObs

\* The solver after construction, set_prox(p) and set_model(m).
InitAttached(C, M, P) ==
  /\ \E c \in C :
       /\ n_threads = c[1]
       /\ epoch_size = c[2]
       /\ record_every = c[3]
  /\ \E m \in M :
       /\ model = m
       /\ rand_max = m.rand_max
       /\ n_coeffs = get_n_coeffs(m)
  /\ prox \in P
  /\ stored_variables_ready = FALSE
  /\ dual_vector = <<>>
  /\ iterate = <<>>
  /\ delta = <<>>
  /\ t = 0
  /\ history = <<>>
  /\ last_record_time = 0
  /\ last_record_epoch = 0
  /\ now = 0
  /\ pc = "idle"
  /\ n_epochs = 0
  /\ w = <<>>
  /\ ret = Ret("set_model", "none")
  /\ obs = NoObs

\* -------------------------------------------------------------- set_model
set_model_keeps_flag(m) ==
  /\ pc = "idle"
  /\ model' = m
  /\ rand_max' = m.rand_max
  /\ n_coeffs' = get_n_coeffs(m)
  /\ ret' = Ret("set_model", "none")
  /\ obs' = Forgotten
  /\ UNCHANGED <<conf, prox, stored_variables_ready, shared, book, now, pc,
                 n_epochs, w>>

\* Lines 20-26 (TStoSolver::set_model sets the index range).
set_model(m) ==
  /\ pc = "idle"
  /\ model' = m
  /\ rand_max' = m.rand_max
  /\ n_coeffs' = get_n_coeffs(m)
  /\ stored_variables_ready' = FALSE
  /\ ret' = Ret("set_model", "none")
  /\ obs' = Forgotten
  /\ UNCHANGED <<conf, prox, shared, book, now, pc, n_epochs, w>>

\* TStoSolver::set_prox
set_prox(p) ==
  /\ pc = "idle"
  /\ prox # p
  /\ prox' = p
  /\ ret' = Ret("set_prox", "none")
  /\ obs' = Forgotten
  /\ UNCHANGED <<conf, model, rand_max, n_coeffs, stored_variables_ready,
                 shared, book, now, pc, n_epochs, w>>

\* ---------------------------------------------------- set_starting_iterate
\* The solver's stored variables, as the initialisers read and write them.
Stored == [dual |-> dual_vector, iterate |-> iterate, delta |-> delta,
           ready |-> stored_variables_ready, err |-> "none"]

\* Sum of f[x] over the finite set S.
RECURSIVE SumOver(_, _)
SumOver(f, S) ==
  IF S = {} THEN 0
  ELSE LET x == CHOOSE y \in S : TRUE IN f[x] + SumOver(f, S \ {x})

FeatureIndex(m, i) == IF m.index_map = <<>> THEN i ELSE m.index_map[i]

\* x_ij of sample i (0 when j is not among the row's indices).
Coef(m, i, j) ==
  LET row == m.features[FeatureIndex(m, i)]
      hit == {k \in 1..Len(row) : row[k][1] = j}
  IN IF j = m.n_features /\ m.use_intercept THEN 1
     ELSE IF hit = {} THEN 0 ELSE row[CHOOSE k \in hit : TRUE][2]

\* model->sdca_primal_dual_relation(l_l2sq, dual, iterate): the primal the
\* dual vector implies, every entry of iterate written.
sdca_primal_dual_relation(m, dv) ==
  [j \in 0..(get_n_coeffs(m) - 1) |->
     m.primal0[j]
       + _1_over_lbda_n * SumOver([i \in DOMAIN dv |-> dv[i] * Coef(m, i, j)], DOMAIN dv)]

Resized(a, n) == IF Size(a) # n THEN Uninit(n) ELSE {a}

ProxAccepted(p) == TRUE

\* Line 171: the prox must be a ProxZero.
ProxIsZero(p) == p = "zero"

WarmStartProxFirst(s, dv) ==
  IF ~ProxIsZero(prox) THEN {[s EXCEPT !.err = "prox"]}
  ELSE IF Size(dv) # rand_max THEN {[s EXCEPT !.err = "size"]}
  ELSE {[dual |-> dv, iterate |-> sdca_primal_dual_relation(model, dv),
         delta |-> d, ready |-> TRUE, err |-> "none"] :
           d \in Resized(s.delta, rand_max)}

\* set_starting_iterate(Array<std::atomic<T>> &dual_vector), lines 164-186,
\* from the stored variables s: the set of possible results.
WarmStart(s, dv) ==
  IF Size(dv) # rand_max THEN {[s EXCEPT !.err = "size"]}
  ELSE IF ~ProxIsZero(prox) THEN {[s EXCEPT !.err = "prox"]}
  ELSE {[dual |-> dv, iterate |-> sdca_primal_dual_relation(model, dv),
         delta |-> d, ready |-> TRUE, err |-> "none"] :
           d \in Resized(s.delta, rand_max)}

CanInitializePrimalToZero(m) == m.kind # "poisreg_identity"

\* set_starting_iterate(), lines 131-162.
DefaultStart(s) ==
  LET zeroed == [s EXCEPT !.dual = Arr(rand_max, 0)]
  IN IF CanInitializePrimalToZero(model)
     THEN {[dual |-> Arr(rand_max, 0), iterate |-> Arr(n_coeffs, 0),
            delta |-> Arr(rand_max, 0), ready |-> TRUE, err |-> "none"]}
     ELSE WarmStart(zeroed, zeroed.dual)

Store(s) ==
  /\ dual_vector' = s.dual
  /\ iterate' = s.iterate
  /\ delta' = s.delta
  /\ stored_variables_ready' = s.ready

\* Vectors a caller warm-starts from.
WarmVectors == {Arr(1, 1), Arr(2, 1)}

set_starting_iterate(dv) ==
  /\ pc = "idle"
  /\ model # NoModel
  /\ \E s \in WarmStart(Stored, dv) :
       /\ Store(s)
       /\ ret' = Ret("warm", s.err)
  /\ obs' = [Forgotten EXCEPT !.arg = dv]
  /\ UNCHANGED <<conf, model, prox, rand_max, n_coeffs, book, now, pc,
                 n_epochs, w>>

\* TStoSolver::reset(): the iteration counter starts over; the history is
\* kept or dropped with its two cursors.
BaseReset(keep) ==
  /\ t' = 0
  /\ IF keep
     THEN UNCHANGED <<history, last_record_time, last_record_epoch>>
     ELSE /\ history' = <<>>
          /\ last_record_time' = 0
          /\ last_record_epoch' = 0

reset ==
  /\ pc = "idle"
  /\ model # NoModel
  /\ \E keep \in BOOLEAN : BaseReset(keep)
  /\ \E s \in DefaultStart(Stored) :
       /\ Store(s)
       /\ ret' = Ret("reset", s.err)
  /\ obs' = Forgotten
  /\ UNCHANGED <<conf, model, prox, rand_max, n_coeffs, now, pc, n_epochs, w>>

\* ------------------------------------------------------------------- solve
\* ulong thread_epoch_size = epoch_size / n_threads;
\* thread_epoch_size += n_thread < (epoch_size % n_threads);
thread_epoch_size_le(n_thread, es, nt) ==
  (es \div nt) + (IF n_thread <= (es % nt) THEN 1 ELSE 0)

thread_epoch_size(n_thread, es, nt) ==
  (es \div nt) + (IF n_thread < (es % nt) THEN 1 ELSE 0)

Idle == [pc |-> "start", epoch |-> 0, t |-> 0, i |-> 0, d |-> 0, e |-> 0,
         nnz |-> 0, start |-> 0]

LoopAtNoBody(k, epoch, tl) ==
  IF ~(epoch < n_epochs + 1) THEN "finish" ELSE "epoch_end"

\* Where the two for loops of the lambda stand for thread k with the given
\* epoch and t: in the body, at the end of the epoch, or past the last epoch.
LoopAt(k, epoch, tl) ==
  IF ~(epoch < n_epochs + 1) THEN "finish"
  ELSE IF tl < thread_epoch_size(k, epoch_size, n_threads) THEN "pick"
  ELSE "epoch_end"

NeedsStartAlways(ready) == TRUE

\* Line 36.
NeedsStart(ready) == ~ready

\* Steps a call solve(n) asks for (lines 57-58); a call that asks for none
\* still counts as one unit of the work the environment may request.
SolveCost(n) == IF n * epoch_size > 0 THEN n * epoch_size ELSE 1

\* solve(n): lines 35-38 and the spawn loop of lines 122-125.  A lazy
\* initialisation that throws ends the call before any thread exists.
solve(n) ==
  /\ pc = "idle"
  /\ model # NoModel
  /\ obs.work + SolveCost(n) <= MaxWork
  /\ \E s \in (IF NeedsStart(stored_variables_ready) THEN DefaultStart(Stored)
                ELSE {Stored}) :
       /\ Store(s)
       /\ IF s.err # "none"
          THEN /\ ret' = Ret("solve", s.err)
               /\ obs' = Forgotten
               /\ UNCHANGED <<pc, n_epochs, w>>
          ELSE /\ pc' = "solving"
               /\ n_epochs' = n
               /\ w' = [k \in Threads |-> Idle]
               /\ ret' = Ret("solve", "running")
               /\ obs' = [solves |-> obs.solves + 1,
                          work |-> obs.work + SolveCost(n),
                          epochs |-> obs.epochs + n, shares |-> obs.shares,
                          n |-> n, dual0 |-> s.dual, iter0 |-> s.iterate,
                          delta0 |-> s.delta, t0 |-> t,
                          ready0 |-> stored_variables_ready,
                          issued |-> Arr(rand_max, 0),
                          steps |-> [k \in Threads |-> 0], failed |-> {},
                          arg |-> <<>>, book0 |-> book,
                          last |-> Arr(rand_max, 0),
                          accepted |-> Arr(rand_max, {}), draws |-> <<>>]
  /\ UNCHANGED <<conf, model, prox, rand_max, n_coeffs, book, now>>

\* The worker's first statements: locals, thread_epoch_size, start.
Begin(k) ==
  /\ pc = "solving"
  /\ w[k].pc = "start"
  /\ w' = [w EXCEPT ![k] = [Idle EXCEPT !.pc = LoopAt(k, 1, 0), !.epoch = 1,
                                        !.start = now]]
  /\ UNCHANGED <<conf, model, prox, rand_max, n_coeffs, stored_variables_ready,
                 shared, book, now, pc, n_epochs, ret, obs>>

Row(i) == model.features[FeatureIndex(model, i)]

\* The increment ModelStep computes from dual_vector[i], iterate and delta[i].
StepFn(m, i, dv, it, dl) ==
  1 + ((dv[i] + dl[i] + SumOver(it, DOMAIN it) \div _1_over_lbda_n) % 2)

\* model->sdca_dual_min_i(feature_index, dual_vector[i], iterate, delta[i],
\* scaled_l_l2sq), lines 67-68: the values the call may return.
sdca_dual_min_i(m, i, dv, it, dl) ==
  IF m = ModelStep THEN {StepFn(m, i, dv, it, dl)} ELSE m.increments

\* The draws of a call are observed in order when one thread makes them all.
Observed(draws, i) == IF n_threads = 1 THEN Append(draws, i) ELSE draws

\* Lines 60-71: get_next_i(), the index map, sdca_dual_min_i (any increment
\* the model may return) and the load of dual_vector[i].
Pick(k) ==
  /\ pc = "solving"
  /\ w[k].pc = "pick"
  /\ \E i \in 0..(rand_max - 1) :
     \E d \in sdca_dual_min_i(model, i, dual_vector, iterate, delta) :
       /\ w' = [w EXCEPT ![k].pc = "cas_dual", ![k].i = i, ![k].d = d,
                         ![k].e = dual_vector[i]]
       /\ obs' = [obs EXCEPT !.issued[i] = @ + d,
                             !.draws = Observed(@, i)]
  /\ UNCHANGED <<conf, model, prox, rand_max, n_coeffs, stored_variables_ready,
                 shared, book, now, pc, n_epochs, ret>>

\* a.compare_exchange_weak(expected, desired): succeeds when the entry holds
\* the expected value.  (A spurious failure leaves every value as it is.)
CasBlind(cur, expected) == TRUE

CasSucceeds(cur, expected) == cur = expected

CasStale(cur, expected) == expected

\* What a failed compare-exchange leaves in `expected`.
CasReload(cur, expected) == cur

\* Lines 72-74.
CasDual(k) ==
  /\ pc = "solving"
  /\ w[k].pc = "cas_dual"
  /\ LET i == w[k].i IN
       IF CasSucceeds(dual_vector[i], w[k].e)
       THEN /\ dual_vector' = [dual_vector EXCEPT ![i] = w[k].e + w[k].d]
            /\ w' = [w EXCEPT ![k].pc = "store_delta", ![k].e = 0]
            /\ obs' = [obs EXCEPT !.last[i] = w[k].d,
                                  !.accepted[i] = @ \cup {w[k].d}]
       ELSE /\ w' = [w EXCEPT ![k].e = CasReload(dual_vector[i], w[k].e)]
            /\ obs' = [obs EXCEPT !.failed = @ \cup {"cas_dual"}]
            /\ UNCHANGED dual_vector
  /\ UNCHANGED <<conf, model, prox, rand_max, n_coeffs, stored_variables_ready,
                 iterate, delta, book, now, pc, n_epochs, ret>>

\* ++t of the inner loop: the per-sample step is over.
StepDone(k, wk) ==
  [wk EXCEPT !.pc = LoopAt(k, wk.epoch, wk.t + 1), !.t = wk.t + 1,
             !.i = 0, !.d = 0, !.e = 0, !.nnz = 0]

\* Line 91.
UseIntercept(m) == m.use_intercept

\* After the primal entries of the row: the intercept, or the next t.
AfterRow(k, wk) ==
  IF UseIntercept(model) THEN [wk EXCEPT !.pc = "load_icpt", !.nnz = 0, !.e = 0]
  ELSE StepDone(k, wk)

\* The loop over the row, standing at idx_nnz = n.
RowAt(k, wk, n) ==
  IF n < Len(Row(wk.i)) THEN [wk EXCEPT !.pc = "load_iter", !.nnz = n, !.e = 0]
  ELSE AfterRow(k, wk)

Counted(k, wk) ==
  [obs EXCEPT !.steps[k] = IF wk.t > w[k].t THEN @ + 1 ELSE @]

DeltaKept(old, d) == old

\* Line 77: delta[i] = delta_dual_i.
DeltaStored(old, d) == d

\* Line 77, and the entry of the loop over the row.
StoreDelta(k) ==
  /\ pc = "solving"
  /\ w[k].pc = "store_delta"
  /\ delta' = [delta EXCEPT ![w[k].i] = DeltaStored(@, w[k].d)]
  /\ LET wk == RowAt(k, w[k], 0) IN
       /\ w' = [w EXCEPT ![k] = wk]
       /\ obs' = Counted(k, wk)
  /\ UNCHANGED <<conf, model, prox, rand_max, n_coeffs, stored_variables_ready,
                 dual_vector, iterate, book, now, pc, n_epochs, ret>>

\* Line 85: iterate_j = iterate[j].load().
LoadIter(k) ==
  /\ pc = "solving"
  /\ w[k].pc = "load_iter"
  /\ LET j == Row(w[k].i)[w[k].nnz + 1][1] IN
       w' = [w EXCEPT ![k].pc = "cas_iter", ![k].e = iterate[j]]
  /\ UNCHANGED <<conf, model, prox, rand_max, n_coeffs, stored_variables_ready,
                 shared, book, now, pc, n_epochs, ret, obs>>

PrimalStepUnscaled(d, x_ij) == d * x_ij

\* delta_dual_i * x_ij * _1_over_lbda_n
PrimalStep(d, x_ij) == d * x_ij * _1_over_lbda_n

\* Lines 86-89.
CasIter(k) ==
  /\ pc = "solving"
  /\ w[k].pc = "cas_iter"
  /\ LET j == Row(w[k].i)[w[k].nnz + 1][1]
         x_ij == Row(w[k].i)[w[k].nnz + 1][2]
     IN IF CasSucceeds(iterate[j], w[k].e)
        THEN /\ iterate' = [iterate EXCEPT ![j] = w[k].e + PrimalStep(w[k].d, x_ij)]
             /\ LET wk == RowAt(k, w[k], w[k].nnz + 1) IN
                  /\ w' = [w EXCEPT ![k] = wk]
                  /\ obs' = Counted(k, wk)
        ELSE /\ w' = [w EXCEPT ![k].e = CasReload(iterate[j], w[k].e)]
             /\ obs' = [obs EXCEPT !.failed = @ \cup {"cas_iter"}]
             /\ UNCHANGED iterate
  /\ UNCHANGED <<conf, model, prox, rand_max, n_coeffs, stored_variables_ready,
                 dual_vector, delta, book, now, pc, n_epochs, ret>>

\* Line 92: iterate_j = iterate[n_features].
LoadIcpt(k) ==
  /\ pc = "solving"
  /\ w[k].pc = "load_icpt"
  /\ w' = [w EXCEPT ![k].pc = "cas_icpt", ![k].e = iterate[model.n_features]]
  /\ UNCHANGED <<conf, model, prox, rand_max, n_coeffs, stored_variables_ready,
                 shared, book, now, pc, n_epochs, ret, obs>>

InterceptStepUnscaled(d) == d

\* delta_dual_i * _1_over_lbda_n
InterceptStep(d) == d * _1_over_lbda_n

\* Lines 93-96.
CasIcpt(k) ==
  /\ pc = "solving"
  /\ w[k].pc = "cas_icpt"
  /\ LET j == model.n_features IN
       IF CasSucceeds(iterate[j], w[k].e)
       THEN /\ iterate' = [iterate EXCEPT ![j] = w[k].e + InterceptStep(w[k].d)]
            /\ LET wk == StepDone(k, w[k]) IN
                 /\ w' = [w EXCEPT ![k] = wk]
                 /\ obs' = Counted(k, wk)
       ELSE /\ w' = [w EXCEPT ![k].e = CasReload(iterate[j], w[k].e)]
            /\ obs' = [obs EXCEPT !.failed = @ \cup {"cas_icpt"}]
            /\ UNCHANGED iterate
  /\ UNCHANGED <<conf, model, prox, rand_max, n_coeffs, stored_variables_ready,
                 dual_vector, delta, book, now, pc, n_epochs, ret>>

RecordsAny(n_thread) == TRUE

\* Line 101 and line 113: only this thread records.
Records(n_thread) == n_thread = 0

RecordDueNoFirst(E, every) == E % every = 0

\* Line 104, E = last_record_epoch + epoch.
RecordDue(E, every) == E = 1 \/ E % every = 0

\* TStoSolver::save_history(time, epoch)
save_history(h, time, epoch) == Append(h, <<time, epoch>>)

\* Lines 100-110 and ++epoch.
EpochEnd(k) ==
  /\ pc = "solving"
  /\ w[k].pc = "epoch_end"
  /\ IF Records(k)
     THEN /\ t' = t + epoch_size
          /\ history' =
               IF RecordDue(last_record_epoch + w[k].epoch, record_every)
               THEN save_history(history, last_record_time + (now - w[k].start),
                                 last_record_epoch + w[k].epoch)
               ELSE history
     ELSE UNCHANGED <<t, history>>
  /\ w' = [w EXCEPT ![k].pc = LoopAt(k, w[k].epoch + 1, 0),
                    ![k].epoch = w[k].epoch + 1, ![k].t = 0]
  /\ UNCHANGED <<conf, model, prox, rand_max, n_coeffs, stored_variables_ready,
                 shared, last_record_time, last_record_epoch, now, pc, n_epochs,
                 ret, obs>>

\* Line 117.
LastRecordTime(lrt, time) == time

\* Lines 113-119: the end of the lambda.
Finish(k) ==
  /\ pc = "solving"
  /\ w[k].pc = "finish"
  /\ IF Records(k)
     THEN /\ last_record_time' = LastRecordTime(last_record_time, now - w[k].start)
          /\ last_record_epoch' = last_record_epoch + n_epochs
     ELSE UNCHANGED <<last_record_time, last_record_epoch>>
  /\ w' = [w EXCEPT ![k] = [Idle EXCEPT !.pc = "done"]]
  /\ UNCHANGED <<conf, model, prox, rand_max, n_coeffs, stored_variables_ready,
                 shared, t, history, now, pc, n_epochs, ret, obs>>

JoinedFirst == {0}

\* Which workers the join loop waits for.
Joined == Threads

\* Lines 126-128: join returns once every thread has ended; solve returns.
Join ==
  /\ pc = "solving"
  /\ \A k \in Joined : w[k].pc = "done"
  /\ pc' = "idle"
  /\ ret' = Ret("solve", "none")
  /\ UNCHANGED <<conf, model, prox, rand_max, n_coeffs, stored_variables_ready,
                 shared, book, now, n_epochs, w, obs>>

\* steady_clock advances.
Tick ==
  /\ now < MaxClock
  /\ now' = now + 1
  /\ UNCHANGED <<conf, model, prox, rand_max, n_coeffs, stored_variables_ready,
                 shared, book, pc, n_epochs, w, ret, obs>>

Worker(k) ==
  /\ k \in Threads
  /\ \/ Begin(k)
     \/ Pick(k)
     \/ CasDual(k)
     \/ StoreDelta(k)
     \/ LoadIter(k)
     \/ CasIter(k)
     \/ LoadIcpt(k)
     \/ CasIcpt(k)
     \/ EpochEnd(k)
     \/ Finish(k)

\* Every operation of the solver and its workers, the clock standing still
\* (it runs in SpecRec).  reset and solve dereference the model, so they are
\* called with a model attached.
Next ==
  \/ \E m \in Models : set_model(m)
  \/ \E p \in ProxKinds : set_prox(p)
  \/ \E dv \in WarmVectors : set_starting_iterate(dv)
  \/ reset
  \/ \E n \in 1..MaxEpochs : solve(n)
  \/ \E k \in 0..(MaxThreads - 1) : Worker(k)
  \/ Join

Configs == {<<1, 1, 1>>, <<2, 2, 1>>}

Init == InitWith(Configs)

Spec == Init /\ [][Next]_vars

\* One model attached, several threads: the calls of solve and their workers.
NextRun ==
  \/ \E n \in 1..MaxEpochs : solve(n)
  \/ \E k \in 0..(MaxThreads - 1) : Worker(k)
  \/ Join

ConfigsRun == (1..MaxThreads) \X (1..MaxEpochSize) \X {1}

InitRun == InitAttached(ConfigsRun, Models, {"zero"})

SpecRun == InitRun /\ [][NextRun]_vars

\* The scheduler runs every thread that can take a step, and the caller's
\* join returns once it can.  A compare_exchange_weak that fails although
\* the entry holds the expected value changes nothing; a thread is not
\* made to fail so forever.
FairRun ==
  /\ \A k \in 0..(MaxThreads - 1) : WF_vars(Worker(k))
  /\ WF_vars(Join)

\* Two threads under that scheduler.
InitLive == InitAttached({<<2, 1, 1>>, <<2, 2, 1>>}, Models, {"zero"})

SpecLive == InitLive /\ [][NextRun]_vars /\ FairRun

\* Recording: one sample, the clock running, calls of solve in sequence.
NextRec ==
  \/ \E n \in 1..MaxEpochs : solve(n)
  \/ \E k \in 0..(MaxThreads - 1) : Worker(k)
  \/ Join
  \/ Tick

ConfigsRec == {1, 2} \X {1} \X (1..MaxRecordEvery)

InitRec == InitAttached(ConfigsRec, {ModelOne}, {"zero"})

SpecRec == InitRec /\ [][NextRec]_vars

\* Calls of solve with any int for n_epochs, zero and negative included.
EpochArgs == (-1)..MaxEpochs

NextArg ==
  \/ \E n \in EpochArgs : solve(n)
  \/ \E k \in 0..(MaxThreads - 1) : Worker(k)
  \/ Join
  \/ Tick

SpecArg == InitRec /\ [][NextArg]_vars

\* Every configuration the constructor accepts with a thread count and an
\* epoch size from zero up (lines 11-18 check nothing).
ConfigsAny == (0..MaxThreads) \X (0..MaxEpochSize) \X {1}

InitAny == InitAttached(ConfigsAny, {ModelOne}, {"zero"})

SpecAny == InitAny /\ [][NextRun]_vars

\* One thread and the model with a step function.
ConfigsOne == {1} \X (1..MaxEpochSize) \X (1..MaxRecordEvery)

InitOne == InitAttached(ConfigsOne, {ModelStep}, {"zero"})

SpecOne == InitOne /\ [][NextRun]_vars

\* The shares of the threads, computed one thread after the other.
Share ==
  /\ Len(obs.shares) < n_threads
  /\ obs' = [obs EXCEPT !.shares =
               Append(@, thread_epoch_size(Len(@), epoch_size, n_threads))]
  /\ UNCHANGED <<conf, model, prox, rand_max, n_coeffs, stored_variables_ready,
                 shared, book, now, pc, n_epochs, w, ret>>

NextShare == Share

ConfigsShare == (1..MaxShareThreads) \X (0..MaxShareEpochSize) \X {1}

InitShare == InitAttached(ConfigsShare, {ModelOne}, {"zero"})

SpecShare == InitShare /\ [][NextShare]_vars

\* ================================================================== claims
\* solve has returned normally and nothing was called since.
Returned == pc = "idle" /\ ret = Ret("solve", "none")

\* C1: when solve returns, every dual entry equals the value it had when
\* the workers were started plus the sum of all increments the workers
\* computed for that sample, whatever the interleaving.
C1_NoLostDualIncrement ==
  Returned =>
    /\ DOMAIN dual_vector = DOMAIN obs.dual0
    /\ \A i \in DOMAIN dual_vector :
         dual_vector[i] = obs.dual0[i] + obs.issued[i]

C1_Witness ==
  /\ Returned
  /\ n_threads >= 2
  /\ "cas_dual" \in obs.failed
  /\ \E i \in DOMAIN dual_vector : obs.issued[i] >= 2

\* What the steps issued so far add to primal entry j: increment * x_ij *
\* 1/(lambda n) over the samples with feature j, and increment * 1/(lambda n)
\* for the intercept slot.
PrimalIssued(j) ==
  SumOver([i \in DOMAIN obs.issued |->
             obs.issued[i] * Coef(model, i, j) * _1_over_lbda_n],
          DOMAIN obs.issued)

\* C2: when solve returns, every primal entry equals its value when the
\* workers were started plus the sum of increment * x_ij / (lambda n) over
\* the executed steps; the intercept slot, present only when the model uses an
\* intercept, gets increment / (lambda n) for every step.
C2_PrimalConsistent ==
  Returned =>
    /\ DOMAIN iterate = 0..(model.n_features - (IF model.use_intercept THEN 0 ELSE 1))
    /\ DOMAIN iterate = DOMAIN obs.iter0
    /\ \A j \in DOMAIN iterate : iterate[j] = obs.iter0[j] + PrimalIssued(j)

C2_Witness ==
  /\ Returned
  /\ n_threads >= 2
  /\ {"cas_iter", "cas_icpt"} \subseteq obs.failed
  /\ model.use_intercept
  /\ iterate[model.n_features] # obs.iter0[model.n_features]

\* C3: the shares of the threads add up to epoch_size, differ by at most one
\* and do not increase with the thread number.
C3_SharesSum ==
  LET sh == obs.shares IN
    Len(sh) = n_threads =>
      /\ SumOver(sh, 1..Len(sh)) = epoch_size
      /\ \A a, b \in 1..Len(sh) :
           a < b => sh[a] >= sh[b] /\ sh[a] - sh[b] <= 1

C3_Witness ==
  /\ Len(obs.shares) = n_threads
  /\ n_threads >= 3
  /\ epoch_size % n_threads # 0
  /\ epoch_size > n_threads

\* C4: solve returns only when every worker has ended; thread k has then
\* executed n_epochs * share(k) per-sample steps, n_epochs * epoch_size in all.
C4_Barrier ==
  Returned =>
    /\ \A k \in Threads :
         /\ w[k].pc = "done"
         /\ obs.steps[k] = obs.n * thread_epoch_size(k, epoch_size, n_threads)
    /\ SumOver(obs.steps, Threads) = obs.n * epoch_size

C4_Witness ==
  /\ Returned
  /\ n_threads >= 2
  /\ obs.steps[1] >= 1

\* C5: every call of solve that started its workers returns.
C5_SolveReturns == (pc = "solving") ~> (pc = "idle")

C5_Witness ==
  /\ Returned
  /\ n_threads >= 2
  /\ obs.failed # {}

\* C6: while solve runs, t, the history and the two cursors change only in
\* steps of worker 0; t changes by epoch_size at the end of an epoch of
\* worker 0; and when solve returns t has grown by n_epochs * epoch_size.
C6_SingleWriter ==
  [][/\ (pc = "solving" /\ book' # book) =>
          /\ w'[0] # w[0]
          /\ \A k \in Threads \ {0} : w'[k] = w[k]
     /\ (pc = "solving" /\ t' # t) =>
          /\ w[0].pc = "epoch_end"
          /\ t' = t + epoch_size
     /\ (pc = "solving" /\ pc' = "idle") =>
          t = obs.t0 + obs.n * epoch_size]_vars

C6_Witness ==
  /\ Returned
  /\ n_threads >= 2
  /\ obs.n >= 2
  /\ t = obs.t0 + obs.n * epoch_size

\* The epoch tags of the history, in order.
Tags == [a \in 1..Len(history) |-> history[a][2]]

\* C7: after calls of solve totalling N epochs on a fresh solver the epoch
\* tags of the history are exactly the E in 1..N with E = 1 or E a multiple of
\* record_every, in strictly increasing order.
C7_Cadence ==
  pc = "idle" =>
    /\ {Tags[a] : a \in 1..Len(history)} =
         {E \in 1..obs.epochs : E = 1 \/ E % record_every = 0}
    /\ \A a, b \in 1..Len(history) : a < b => Tags[a] < Tags[b]

C7_Witness ==
  /\ Returned
  /\ obs.solves >= 2
  /\ record_every = 2
  /\ obs.epochs = 3
  /\ Tags = <<1, 2>>

\* C8: the time tag of a history entry is at least the time tag of every
\* entry appended before it, also across calls of solve.
C8_TimesMonotone ==
  \A a, b \in 1..Len(history) : a < b => history[a][1] <= history[b][1]

\* C9: workers exist only while the flag is set and the three arrays have
\* the sizes the attached model requires.
C9_SpawnOnlyReady ==
  pc = "solving" =>
    /\ stored_variables_ready
    /\ rand_max = model.rand_max
    /\ n_coeffs = get_n_coeffs(model)
    /\ Size(dual_vector) = rand_max
    /\ Size(delta) = rand_max
    /\ Size(iterate) = n_coeffs

C9_Witness ==
  /\ pc = "solving"
  /\ ~obs.ready0
  /\ obs.solves >= 2
  /\ Size(obs.dual0) = 2

\* C10: a solve called with the flag set starts its workers on the stored
\* variables as they are, and only set_model clears the flag.
C10_StatePersists ==
  [][/\ (pc = "idle" /\ ret'.op = "solve" /\ stored_variables_ready) =>
          /\ shared' = shared
          /\ stored_variables_ready'
          /\ pc' = "solving"
     /\ (stored_variables_ready /\ ~stored_variables_ready') =>
          ret'.op = "set_model"]_vars

C10_Witness ==
  /\ pc = "solving"
  /\ obs.ready0
  /\ obs.dual0 = dual_vector
  /\ \E i \in DOMAIN dual_vector : dual_vector[i] # 0
  /\ \A k \in Threads : w[k].pc = "start"

\* C11: a warm start from a vector whose length differs from the number of
\* samples ends with the size error, whatever the prox (the size check comes
\* first), and leaves dual_vector, iterate, delta and stored_variables_ready
\* as they were.
WarmStep == pc = "idle" /\ ret'.op = "warm" /\ obs'.arg # <<>>

C11_WrongSizeRejected ==
  [][(WarmStep /\ Size(obs'.arg) # rand_max)
       => /\ ret'.err = "size"
          /\ shared' = shared
          /\ stored_variables_ready' = stored_variables_ready]_vars

C11_Witness ==
  /\ ret = Ret("warm", "size")
  /\ Size(obs.arg) # rand_max
  /\ ~ProxIsZero(prox)
  /\ stored_variables_ready
  /\ \E i \in DOMAIN dual_vector : dual_vector[i] # 0

\* C12: a warm start from a vector of the right length ends with the prox
\* error, with dual_vector, iterate, delta and stored_variables_ready as they
\* were, when the prox is not the zero prox; with the zero prox it succeeds,
\* stores the vector as dual_vector, sets iterate from it by the primal/dual
\* relation and sets stored_variables_ready.
C12_RightSizeWarmStart ==
  [][(WarmStep /\ Size(obs'.arg) = rand_max)
       => IF prox = "zero"
          THEN /\ ret'.err = "none"
               /\ dual_vector' = obs'.arg
               /\ iterate' = sdca_primal_dual_relation(model, obs'.arg)
               /\ Size(delta') = rand_max
               /\ stored_variables_ready'
          ELSE /\ ret'.err = "prox"
               /\ shared' = shared
               /\ stored_variables_ready' = stored_variables_ready]_vars

C12_Witness ==
  /\ ret = Ret("warm", "prox")
  /\ Size(obs.arg) = rand_max
  /\ ~ProxIsZero(prox)
  /\ stored_variables_ready
  /\ dual_vector # obs.arg

\* C13: a reset, warm start or solve that ends with an error leaves
\* dual_vector, iterate, delta and stored_variables_ready as they were before
\* the call and starts no worker.
Rejected(r) == r.op \in {"reset", "warm", "solve"} /\ r.err \in {"size", "prox"}

C13_RejectedCallChangesNothing ==
  [][(pc = "idle" /\ Rejected(ret'))
       => /\ shared' = shared
          /\ stored_variables_ready' = stored_variables_ready
          /\ pc' = "idle"]_vars

\* C14: an initialisation (reset, warm start, or the lazy one of a solve on
\* a solver that is not ready) that succeeds and sets
\* stored_variables_ready never happens with a prox set that is not the
\* zero prox, whatever the model.
Initialises ==
  /\ pc = "idle"
  /\ \/ ret'.op \in {"reset", "warm"}
     \/ ret'.op = "solve" /\ NeedsStart(stored_variables_ready)
  /\ ret'.err \in {"none", "running"}
  /\ stored_variables_ready'

C14_OtherProxNeverInitialises ==
  [][(Initialises /\ prox \in ProxKinds) => prox = "zero"]_vars

\* C15: right after a successful reset, and when a solve that ran the lazy
\* initialisation starts its workers, dual_vector and delta are all zero and
\* iterate is all zero (models whose primal at zero dual is zero) or the
\* primal/dual reconstruction of the zero dual vector (the other models).
ZeroStart(dv, it, dl) ==
  /\ dv = Arr(rand_max, 0)
  /\ dl = Arr(rand_max, 0)
  /\ it = IF CanInitializePrimalToZero(model) THEN Arr(n_coeffs, 0)
          ELSE sdca_primal_dual_relation(model, Arr(rand_max, 0))

C15_DefaultStartIsZero ==
  /\ ret = Ret("reset", "none") => ZeroStart(dual_vector, iterate, delta)
  /\ (pc = "solving" /\ ~obs.ready0)
       => ZeroStart(obs.dual0, obs.iter0, obs.delta0)

\* C16: when a solve(n) with n <= 0, called on a solver whose stored
\* variables were ready, has returned, no worker has executed a step and
\* dual_vector, iterate, delta, t, history, last_record_time and
\* last_record_epoch are what they were when it was called.
C16_NonPositiveIsNoOp ==
  (Returned /\ obs.n <= 0 /\ obs.ready0)
    => /\ \A k \in Threads : obs.steps[k] = 0
       /\ dual_vector = obs.dual0
       /\ iterate = obs.iter0
       /\ delta = obs.delta0
       /\ book = obs.book0

\* C18: no call of solve is under way, or has been made, on a solver whose
\* n_threads is zero or negative or whose epoch_size is zero.
C18_NoSolveWithInvalidConfig ==
  ret.op = "solve" => (n_threads >= 1 /\ epoch_size >= 1)

\* C19 as claimed: when solve has returned, delta[i] of every sample i
\* drawn in the call is the increment of the step whose CAS on
\* dual_vector[i] succeeded last, and delta[i] of every other sample is what
\* it was at the start, for any number of threads.
Drawn(i) == obs.accepted[i] # {}

C19_DeltaIsLastAccepted ==
  Returned =>
    \A i \in DOMAIN delta :
      delta[i] = IF Drawn(i) THEN obs.last[i] ELSE obs.delta0[i]

\* C19 amended: when solve has returned, delta[i] of every sample i drawn in
\* the call is the increment of one of the steps whose CAS on dual_vector[i]
\* succeeded in the call, and it is the one that succeeded last when
\* n_threads = 1; delta[i] of every other sample is what it was at the start.
C19_DeltaIsSomeAccepted ==
  Returned =>
    \A i \in DOMAIN delta :
      IF Drawn(i)
      THEN /\ delta[i] \in obs.accepted[i]
           /\ n_threads = 1 => delta[i] = obs.last[i]
      ELSE delta[i] = obs.delta0[i]

C19_Witness ==
  /\ Returned
  /\ n_threads = 2
  /\ \E i \in DOMAIN delta : Drawn(i) /\ delta[i] # obs.last[i]

\* C20 as claimed: during solve, with any number of threads, the amount by
\* which t has advanced in the call is at most the number of per-sample
\* steps all threads have completed in it.
StepsDone == SumOver(obs.steps, Threads)

C20_CounterBehindWork ==
  pc = "solving" => t - obs.t0 <= StepsDone

\* C20 amended: during solve and at its return, t has advanced by epoch_size
\* for each epoch thread 0 has finished, thread 0 has completed its own share
\* of the steps of each of these epochs, and no more history entries have
\* been appended than thread 0 has finished epochs; the advance of t is at
\* most the number of steps completed by all threads when n_threads = 1 and
\* when solve has returned.
EpochsOfThread0 ==
  IF w[0].pc = "start" THEN 0
  ELSE IF w[0].pc = "done" THEN obs.n
  ELSE w[0].epoch - 1

C20_CounterFollowsThread0 ==
  (pc = "solving" \/ Returned) =>
    /\ t - obs.t0 = EpochsOfThread0 * epoch_size
    /\ obs.steps[0] >=
         EpochsOfThread0 * thread_epoch_size(0, epoch_size, n_threads)
    /\ Len(history) - Len(obs.book0[2]) <= EpochsOfThread0
    /\ (n_threads = 1 \/ Returned) => t - obs.t0 <= StepsDone

C20_Witness ==
  /\ pc = "solving"
  /\ n_threads = 2
  /\ t - obs.t0 > StepsDone
  /\ Len(history) > Len(obs.book0[2])

\* C17: with n_threads = 1, when solve(n) has returned, dual_vector, iterate
\* and delta are what a plain loop over the drawn samples makes of the
\* values at the start (for each drawn i: the model's increment d from the
\* current values, dual[i] += d, delta[i] = d, iterate[j] += d * x_ij / (lambda
\* n) for every j), t has advanced by n * epoch_size, the epoch tags appended
\* are those the cadence gives for the n epochs, and no CAS has failed.
RefStep(st, i) ==
  LET d == StepFn(model, i, st.dual, st.iterate, st.delta) IN
    [dual |-> [st.dual EXCEPT ![i] = @ + d],
     delta |-> [st.delta EXCEPT ![i] = d],
     iterate |-> [j \in DOMAIN st.iterate |->
                    st.iterate[j] + d * Coef(model, i, j) * _1_over_lbda_n]]

RECURSIVE RefRun(_, _)
RefRun(st, draws) ==
  IF draws = <<>> THEN st
  ELSE RefRun(RefStep(st, Head(draws)), Tail(draws))

RefDue(E) == E = 1 \/ E % record_every = 0

RefTags(E0, n) == SelectSeq([e \in 1..n |-> E0 + e], RefDue)

C17_OneThreadIsSequential ==
  (Returned /\ n_threads = 1) =>
    LET ref == RefRun([dual |-> obs.dual0, iterate |-> obs.iter0,
                       delta |-> obs.delta0], obs.draws)
        h0 == obs.book0[2]
    IN /\ Len(obs.draws) = obs.n * epoch_size
       /\ dual_vector = ref.dual
       /\ iterate = ref.iterate
       /\ delta = ref.delta
       /\ t = obs.t0 + obs.n * epoch_size
       /\ SubSeq(history, 1, Len(h0)) = h0
       /\ SubSeq(Tags, Len(h0) + 1, Len(history)) = RefTags(obs.book0[4], obs.n)
       /\ obs.failed = {}

C17_Witness ==
  /\ Returned
  /\ n_threads = 1
  /\ obs.solves >= 2
  /\ Len(obs.draws) >= 2
  /\ obs.draws[1] # obs.draws[2]
  /\ \E i \in DOMAIN obs.dual0 : obs.dual0[i] # 0
  /\ \E j \in DOMAIN iterate : iterate[j] # obs.iter0[j]
====
